---- MODULE Spec2Model ----
(***************************************************************************)
(* PrivacyX (main.py): a FastAPI application with a cookie session gate    *)
(* (login, signup, logout, home) and a retrieval-augmented /ask pipeline   *)
(* (embed -> vector search -> prompt -> LLM -> page).                      *)
(*                                                                         *)
(* The endpoints are plain `def` functions, which FastAPI runs on a pool   *)
(* of worker threads: two requests can be in progress at once and their    *)
(* accesses to the module-level dicts VALID_USERS and sessions interleave. *)
(* Each worker is a small program counter machine; one action is one       *)
(* access to the shared dicts or one blocking call to a collaborator.      *)
(***************************************************************************)
EXTENDS Naturals, Sequences, FiniteSets

\* ------------------------------------------------------------------ inputs

\* request.cookies.get("username") when the cookie is absent
None == "<None>"

Workers == {"w1", "w2"}
Users == {"admin", "bob"}
Secrets == {"admin123", "pw1"}
\* what a client may send as the username cookie (any string, or nothing)
Cookies == Users \cup {None, ""}
\* the question form field; "" is an empty submission
Questions == {"", "q"}

\* The i-th hit of the index for a query, best first: a payload (a dict whose
\* keys depend on what was stored at indexing time) and a score in units of
\* 1e-5 (0.90996 is 90996). Hits 1 and 2, 3 and 4, ... tie on the score.
HitPayload(i) ==
    IF i % 3 = 1 THEN [text |-> <<"text", i>>, source |-> <<"doc", i>>]
    ELSE IF i % 3 = 2 THEN [source |-> <<"doc", i>>]
    ELSE [text |-> <<"text", i>>]
Hit(i) ==
    [payload |-> HitPayload(i), score |-> 95008 - 4012 * ((i + 1) \div 2)]

\* the most entries the index holds that match a query
MaxHits == 6

\* the entries the index holds for a query when it holds n, best first
Corpus(n) == [i \in 1..n |-> Hit(i)]

\* a search that asks for one hit more
limit_plus_one == 5 + 1

\* limit=5 (main.py:100)
limit == 5

\* qdrant.search(query_vector, limit): the best `lim` entries, best first,
\* equal scores in the index's order; all of them when it holds fewer
qdrant_search(corpus, lim) ==
    SubSeq(corpus, 1, IF Len(corpus) < lim THEN Len(corpus) ELSE lim)

\* what the index may answer to one search (the corpus is external)
IndexReturns == {qdrant_search(Corpus(n), limit) : n \in 0..MaxHits}

\* response.text of the LLM, as a sequence of characters
LLMTexts == {<<" ", "A", " ">>, <<"A">>}
\* str(e) of an exception raised by generate_content or by response.text
LLMErrors == {"quota"}

\* ------------------------------------------------------------------- state

VARIABLES
    VALID_USERS,  \* dict username -> password (main.py:33)
    sessions,     \* dict username -> True, as its key set (main.py:34)
    pc,           \* per worker: where its handler stands
    request,      \* per worker: the request it is serving
    frame,        \* per worker: the locals of its handler, what a call
                  \* raised, whether login's comparison matched, and how
                  \* many entries the index held for the query
    response,     \* per worker: the response of its last finished request
    calls         \* per worker: collaborator calls made for the request

vars == <<VALID_USERS, sessions, pc, request, frame, response, calls>>

\* the shared dicts
gate == <<VALID_USERS, sessions>>

NoRequest == [kind |-> "none", cookie |-> None, username |-> None,
              password |-> None, question |-> None]
NoFrame == [query_vector |-> None, results |-> << >>, context_chunks |-> << >>,
            sources |-> << >>, prompt |-> << >>, answer |-> None,
            raised |-> "none", matched |-> FALSE, held |-> 0]
NoResponse == [status |-> 0, outcome |-> "none", set_cookie |-> None,
               answer |-> None, sources |-> None]
NoCalls == [embed |-> 0, search |-> 0, llm |-> 0]

Requests ==
    {[kind |-> "login", cookie |-> None, username |-> u, password |-> p,
      question |-> None] : u \in Users, p \in Secrets}
    \cup
    {[kind |-> "signup", cookie |-> None, username |-> u, password |-> p,
      question |-> None] : u \in Users, p \in Secrets}
    \cup
    {[kind |-> k, cookie |-> c, username |-> None, password |-> None,
      question |-> None] : k \in {"logout", "home"}, c \in Cookies}
    \cup
    {[kind |-> "ask", cookie |-> c, username |-> None, password |-> None,
      question |-> q] : c \in Cookies, q \in Questions}

Init ==
    /\ VALID_USERS = [u \in {"admin"} |-> "admin123"]
    /\ sessions = {}
    /\ pc = [w \in Workers |-> "idle"]
    /\ request = [w \in Workers |-> NoRequest]
    /\ frame = [w \in Workers |-> NoFrame]
    /\ response = [w \in Workers |-> NoResponse]
    /\ calls = [w \in Workers |-> NoCalls]

\* ----------------------------------------------------------------- helpers

\* an assignment that rebinds the dict to the one new entry
DictSet_rebind(d, k, v) == [x \in {k} |-> v]

\* d[k] = v on a dict
DictSet(d, k, v) == [x \in DOMAIN d \cup {k} |-> IF x = k THEN v ELSE d[x]]

\* raise HTTPException(status_code=401, detail="Not authenticated")
HTTP401 == "<401>"

\* a gate that tests the cookie and forgets the registry
get_current_user_cookie_only(username) ==
    IF username = None \/ username = "" THEN HTTP401 ELSE username

\* get_current_user: the username, or HTTPException(401)
get_current_user(username) ==
    IF username = None \/ username = "" \/ username \notin sessions
    THEN HTTP401
    ELSE username

Reply(status, outcome) ==
    [status |-> status, outcome |-> outcome, set_cookie |-> None,
     answer |-> None, sources |-> None]

\* the worker finishes its request with response r
Finish(w, r) ==
    /\ response' = [response EXCEPT ![w] = r]
    /\ pc' = [pc EXCEPT ![w] = "idle"]

\* a worker thread picks up the next request
Receive(w) ==
    /\ pc[w] = "idle"
    /\ \E r \in Requests :
        /\ request' = [request EXCEPT ![w] = r]
        /\ pc' = [pc EXCEPT ![w] = r.kind]
    /\ frame' = [frame EXCEPT ![w] = NoFrame]
    /\ response' = [response EXCEPT ![w] = NoResponse]
    /\ calls' = [calls EXCEPT ![w] = NoCalls]
    /\ UNCHANGED gate

\* ------------------------------------------------------------- SessionGate

\* a comparison that forgets the password
CredentialMatch_user_only(username, password) ==
    username \in DOMAIN VALID_USERS

\* login's condition: username in VALID_USERS and VALID_USERS[username] == password
CredentialMatch(username, password) ==
    username \in DOMAIN VALID_USERS /\ VALID_USERS[username] = password

\* POST /login, up to the branch (main.py:49); the else branch renders
\* login.html with the "Invalid credentials" error
login(w) ==
    /\ pc[w] = "login"
    /\ IF CredentialMatch(request[w].username, request[w].password)
       THEN /\ pc' = [pc EXCEPT ![w] = "login_set"]
            /\ frame' = [frame EXCEPT ![w].matched =
                    request[w].username \in DOMAIN VALID_USERS
                    /\ VALID_USERS[request[w].username] = request[w].password]
            /\ UNCHANGED response
       ELSE /\ Finish(w, Reply(200, "InvalidCredentials"))
            /\ UNCHANGED frame
    /\ UNCHANGED <<request, calls, gate>>

\* a login that answers with the cookie and never writes the session
login_set_nowrite(w) ==
    /\ pc[w] = "login_set"
    /\ Finish(w, [Reply(302, "Redirect") EXCEPT
                      !.set_cookie = request[w].username])
    /\ UNCHANGED <<VALID_USERS, sessions, request, frame, calls>>

\* sessions[username] = True, then the redirect with the cookie (main.py:50-53)
login_set(w) ==
    /\ pc[w] = "login_set"
    /\ sessions' = sessions \cup {request[w].username}
    /\ Finish(w, [Reply(302, "Redirect") EXCEPT
                      !.set_cookie = request[w].username])
    /\ UNCHANGED <<VALID_USERS, request, frame, calls>>

\* a test of the session registry in place of the credential store
UserExists_by_session(username) == username \in sessions

\* signup's condition: username in VALID_USERS
UserExists(username) == username \in DOMAIN VALID_USERS

\* POST /signup, up to the branch (main.py:67-71)
signup(w) ==
    /\ pc[w] = "signup"
    /\ IF UserExists(request[w].username)
       THEN Finish(w, Reply(200, "DuplicateUser"))
       ELSE /\ pc' = [pc EXCEPT ![w] = "signup_put"]
            /\ UNCHANGED response
    /\ UNCHANGED <<request, frame, calls, gate>>

\* a signup that creates the session and never stores the credential
signup_put_skip(w) ==
    /\ pc[w] = "signup_put"
    /\ pc' = [pc EXCEPT ![w] = "signup_set"]
    /\ UNCHANGED <<VALID_USERS, sessions, request, frame, response, calls>>

\* VALID_USERS[username] = password (main.py:73)
signup_put(w) ==
    /\ pc[w] = "signup_put"
    /\ VALID_USERS' = DictSet(VALID_USERS, request[w].username,
                              request[w].password)
    /\ pc' = [pc EXCEPT ![w] = "signup_set"]
    /\ UNCHANGED <<sessions, request, frame, response, calls>>

\* sessions[username] = True, then the redirect with the cookie (main.py:74-77)
signup_set(w) ==
    /\ pc[w] = "signup_set"
    /\ sessions' = sessions \cup {request[w].username}
    /\ Finish(w, [Reply(302, "Redirect") EXCEPT
                      !.set_cookie = request[w].username])
    /\ UNCHANGED <<VALID_USERS, request, frame, calls>>

\* a pop that removes nothing
DictPop_keep(keys, k) == keys

\* a logout that empties the registry
DictPop_all(keys, k) == {}

\* sessions.pop(username, None)
DictPop(keys, k) == keys \ {k}

\* response.delete_cookie("username")
Deleted == "<deleted>"

\* a pop without its default: the KeyError of an absent key leaves the
\* endpoint
logout_keyerror(w) ==
    /\ pc[w] = "logout"
    /\ IF request[w].cookie \in sessions
       THEN /\ sessions' = sessions \ {request[w].cookie}
            /\ Finish(w, [Reply(302, "Redirect") EXCEPT !.set_cookie = Deleted])
       ELSE /\ sessions' = sessions
            /\ Finish(w, Reply(500, "Failed"))
    /\ UNCHANGED <<VALID_USERS, request, frame, calls>>

\* GET /logout (main.py:81-86): no authentication, never an error
logout(w) ==
    /\ pc[w] = "logout"
    /\ sessions' = DictPop(sessions, request[w].cookie)
    /\ Finish(w, [Reply(302, "Redirect") EXCEPT !.set_cookie = Deleted])
    /\ UNCHANGED <<VALID_USERS, request, frame, calls>>

\* GET /home (main.py:89-91): Depends(get_current_user), then home.html
home(w) ==
    /\ pc[w] = "home"
    /\ IF get_current_user(request[w].cookie) = HTTP401
       THEN Finish(w, Reply(401, "NotAuthenticated"))
       ELSE Finish(w, Reply(200, "Page"))
    /\ UNCHANGED <<request, frame, calls, gate>>

\* -------------------------------------------------------------- QAPipeline

\* a form field with a default: nothing counts as missing
FormMissing_never(value) == FALSE

\* question: str = Form(...) declares a required form field (main.py:95).
\* FastAPI counts an empty form value as missing and answers 422 without
\* calling the endpoint function.
FormMissing(value) == value = ""

\* POST /ask before the function body: the dependency get_current_user
\* runs first and its HTTPException ends the request; then the form field
\* is validated
ask(w) ==
    /\ pc[w] = "ask"
    /\ IF get_current_user(request[w].cookie) = HTTP401
       THEN Finish(w, Reply(401, "NotAuthenticated"))
       ELSE IF FormMissing(request[w].question)
       THEN Finish(w, Reply(422, "Unprocessable"))
       ELSE /\ pc' = [pc EXCEPT ![w] = "embed"]
            /\ UNCHANGED response
    /\ UNCHANGED <<request, frame, calls, gate>>

\* an uncaught exception leaves the endpoint: the server answers 500
Raise(w, stage) ==
    /\ frame' = [frame EXCEPT ![w].raised = stage]
    /\ Finish(w, Reply(500, "Failed"))

\* embed_model.encode([question])[0]: deterministic for a fixed model
encode(question) == <<"vec", question>>

\* query_vector = embed_model.encode([question])[0] (main.py:96)
ask_embed(w) ==
    /\ pc[w] = "embed"
    /\ calls' = [calls EXCEPT ![w].embed = @ + 1]
    /\ \/ /\ frame' = [frame EXCEPT ![w].query_vector =
                    encode(request[w].question)]
          /\ pc' = [pc EXCEPT ![w] = "search"]
          /\ UNCHANGED response
       \/ Raise(w, "embed")
    /\ UNCHANGED <<request, gate>>

\* a search whose failure is swallowed into an empty result list
ask_search_swallow(w) ==
    /\ pc[w] = "search"
    /\ calls' = [calls EXCEPT ![w].search = @ + 1]
    /\ \/ \E n \in 0..MaxHits :
              frame' = [frame EXCEPT
                  ![w].results = qdrant_search(Corpus(n), limit),
                  ![w].held = n]
       \/ frame' = [frame EXCEPT ![w].results = << >>, ![w].raised = "search"]
    /\ pc' = [pc EXCEPT ![w] = "prompt"]
    /\ UNCHANGED <<request, response, gate>>

\* results = qdrant.search(..., limit=5, with_payload=True) (main.py:97-102)
ask_search(w) ==
    /\ pc[w] = "search"
    /\ calls' = [calls EXCEPT ![w].search = @ + 1]
    /\ \/ /\ \E n \in 0..MaxHits :
                frame' = [frame EXCEPT
                    ![w].results = qdrant_search(Corpus(n), limit),
                    ![w].held = n]
          /\ pc' = [pc EXCEPT ![w] = "prompt"]
          /\ UNCHANGED response
       \/ Raise(w, "search")
    /\ UNCHANGED <<request, gate>>

\* the empty string '' among payload values, which are character sequences
Empty == << >>

\* a get without its default: None, which the f-string prints as "None"
Get_none(payload, key, default) ==
    IF key \in DOMAIN payload THEN payload[key] ELSE <<"None">>

\* payload.get(key, default)
Get(payload, key, default) ==
    IF key \in DOMAIN payload THEN payload[key] ELSE default

\* f"{score:.4f}" of a score given in units of 1e-5, in units of 1e-4
Fmt4(score) == (score + 5) \div 10

\* a context line that also names the source and the score
ContextChunk_with_source(i, r) ==
    <<i, ". ", Get(r.payload, "text", Empty), Get(r.payload, "source", Empty),
      r.score>>

\* f"{i}. {r.payload.get('text', '')}" (main.py:106)
ContextChunk(i, r) == <<i, ". ", Get(r.payload, "text", Empty)>>

\* the provenance line of hit r (main.py:107); "doc " stands for the page
\* emoji and the space that open the line
SourceLine(r) ==
    <<"doc ", Get(r.payload, "source", Empty), " (score: ", Fmt4(r.score),
      ")">>

\* chr(10).join(context_chunks), as the lines it makes: one per chunk, and
\* one empty line when there is no chunk
Join(context_chunks) ==
    IF context_chunks = << >> THEN << << >> >> ELSE context_chunks

\* the f-string of main.py:109, as its lines; a line is the sequence of its
\* pieces, the empty line the empty sequence
Instruction == "You are a Data Protection expert AI. Use the following document context to answer the user's question:"
Prompt(context_chunks, question) ==
    << <<Instruction>>, << >>, <<"CONTEXT:">> >> \o Join(context_chunks)
    \o << << >>, <<"QUESTION:">>, <<question>>, << >>, <<"ANSWER:">> >>

\* a prompt that opens with the name of the user
ask_prompt_with_user(w) ==
    /\ pc[w] = "prompt"
    /\ LET results == frame[w].results
           chunks == [i \in 1..Len(results) |-> ContextChunk(i, results[i])]
       IN frame' = [frame EXCEPT
                ![w].context_chunks = chunks,
                ![w].sources = [i \in 1..Len(results) |-> SourceLine(results[i])],
                ![w].prompt = << <<request[w].cookie>> >>
                              \o Prompt(chunks, request[w].question)]
    /\ pc' = [pc EXCEPT ![w] = "generate"]
    /\ UNCHANGED <<request, response, calls, gate>>

\* a pipeline that treats an empty result list as an error
ask_prompt_rejects_empty(w) ==
    /\ pc[w] = "prompt"
    /\ IF frame[w].results = << >>
       THEN /\ Finish(w, Reply(500, "Failed"))
            /\ UNCHANGED frame
       ELSE LET results == frame[w].results
                chunks == [i \in 1..Len(results) |->
                              ContextChunk(i, results[i])]
            IN /\ frame' = [frame EXCEPT
                    ![w].context_chunks = chunks,
                    ![w].sources = [i \in 1..Len(results) |->
                                       SourceLine(results[i])],
                    ![w].prompt = Prompt(chunks, request[w].question)]
               /\ pc' = [pc EXCEPT ![w] = "generate"]
               /\ UNCHANGED response
    /\ UNCHANGED <<request, calls, gate>>

\* the loop over enumerate(results, 1) and the prompt (main.py:104-109)
ask_prompt(w) ==
    /\ pc[w] = "prompt"
    /\ LET results == frame[w].results
           chunks == [i \in 1..Len(results) |-> ContextChunk(i, results[i])]
       IN frame' = [frame EXCEPT
                ![w].context_chunks = chunks,
                ![w].sources = [i \in 1..Len(results) |-> SourceLine(results[i])],
                ![w].prompt = Prompt(chunks, request[w].question)]
    /\ pc' = [pc EXCEPT ![w] = "generate"]
    /\ UNCHANGED <<request, response, calls, gate>>

\* str.strip() on a sequence of characters
RECURSIVE LStrip(_)
LStrip(t) == IF t # << >> /\ Head(t) = " " THEN LStrip(Tail(t)) ELSE t
RECURSIVE RStrip(_)
RStrip(t) ==
    IF t # << >> /\ t[Len(t)] = " " THEN RStrip(SubSeq(t, 1, Len(t) - 1)) ELSE t
Strip(t) == RStrip(LStrip(t))

\* except Exception as e: answer = f"Error: {str(e)}" (main.py:114-115)
ErrorAnswer(e) == <<"Error: ", e>>

\* a generation step without the try block: the exception leaves the endpoint
ask_generate_notry(w) ==
    /\ pc[w] = "generate"
    /\ calls' = [calls EXCEPT ![w].llm = @ + 1]
    /\ \/ /\ \E t \in LLMTexts :
                frame' = [frame EXCEPT ![w].answer = Strip(t)]
          /\ pc' = [pc EXCEPT ![w] = "render"]
          /\ UNCHANGED response
       \/ Raise(w, "llm")
    /\ UNCHANGED <<request, gate>>

\* a generation step that calls the LLM a second time when the first call
\* raised
ask_generate_retry(w) ==
    /\ pc[w] = "generate"
    /\ \/ /\ calls' = [calls EXCEPT ![w].llm = @ + 1]
          /\ \E t \in LLMTexts :
                frame' = [frame EXCEPT ![w].answer = Strip(t)]
       \/ /\ calls' = [calls EXCEPT ![w].llm = @ + 2]
          /\ \E e \in LLMErrors :
                frame' = [frame EXCEPT ![w].answer = ErrorAnswer(e),
                                       ![w].raised = "llm"]
    /\ pc' = [pc EXCEPT ![w] = "render"]
    /\ UNCHANGED <<request, response, gate>>

\* the try block around generate_content and response.text (main.py:111-115)
ask_generate(w) ==
    /\ pc[w] = "generate"
    /\ calls' = [calls EXCEPT ![w].llm = @ + 1]
    /\ \/ \E t \in LLMTexts :
              frame' = [frame EXCEPT ![w].answer = Strip(t)]
       \/ \E e \in LLMErrors :
              frame' = [frame EXCEPT ![w].answer = ErrorAnswer(e),
                                     ![w].raised = "llm"]
    /\ pc' = [pc EXCEPT ![w] = "render"]
    /\ UNCHANGED <<request, response, gate>>

\* a pipeline that ends the caller's session with the answer
ask_render_expire(w) ==
    /\ pc[w] = "render"
    /\ sessions' = sessions \ {request[w].cookie}
    /\ Finish(w, [Reply(200, "Completed") EXCEPT
                      !.answer = frame[w].answer,
                      !.sources = frame[w].sources])
    /\ UNCHANGED <<VALID_USERS, request, frame, calls>>

\* the TemplateResponse of home.html with answer and sources (main.py:117-123)
ask_render(w) ==
    /\ pc[w] = "render"
    /\ Finish(w, [Reply(200, "Completed") EXCEPT
                      !.answer = frame[w].answer,
                      !.sources = frame[w].sources])
    /\ UNCHANGED <<request, frame, calls, gate>>

\* ------------------------------------------------------------ specification

Next ==
    \E w \in Workers :
        \/ Receive(w)
        \/ login(w) \/ login_set(w)
        \/ signup(w) \/ signup_put(w) \/ signup_set(w)
        \/ logout(w)
        \/ home(w)
        \/ ask(w) \/ ask_embed(w) \/ ask_search(w) \/ ask_prompt(w)
        \/ ask_generate(w) \/ ask_render(w)

Spec == Init /\ [][Next]_vars

\* ------------------------------------------------------------------ claims

\* worker w takes a step of its handler from the program point at
Steps(w, at) == pc[w] = at /\ pc'[w] # at

\* worker w's last request was of this kind and is answered
Served(w, kind) ==
    pc[w] = "idle" /\ request[w].kind = kind /\ response[w].outcome # "none"

\* the caller of w's request has no username cookie, or a cookie whose
\* username has no entry in the session registry
Unauthenticated(w) ==
    request[w].cookie = None \/ request[w].cookie \notin sessions

\* the step writes the sessions entry of u in a signup of u, or in a login of
\* u whose secret matched the stored one
SessionGranted(u) ==
    \E w \in Workers :
        /\ request[w].username = u
        /\ \/ Steps(w, "signup_set")
           \/ Steps(w, "login_set") /\ frame[w].matched

\* C1: a POST /ask whose caller is unauthenticated ends with NotAuthenticated
\* (401), whatever the question, with no embedding, search or LLM call made
\* and with the session registry and the credential store unchanged.
C1_UnauthenticatedAsk ==
    [][\A w \in Workers :
        Steps(w, "ask") /\ Unauthenticated(w) =>
            /\ pc'[w] = "idle"
            /\ response'[w].status = 401
            /\ response'[w].outcome = "NotAuthenticated"
            /\ calls'[w] = NoCalls
            /\ sessions' = sessions
            /\ VALID_USERS' = VALID_USERS]_vars

C1_Witness ==
    \E w \in Workers :
        /\ Served(w, "ask")
        /\ request[w].question = "q"
        /\ request[w].cookie = "bob"
        /\ response[w].outcome = "NotAuthenticated"
        /\ calls[w] = NoCalls

\* C2: signups of one not-yet-registered username are atomic: two of them
\* are never both answered with success, and the secret stored for the
\* username is the secret of the signup that succeeded.
C2_SignupAtomic ==
    /\ \A w1, w2 \in Workers :
        /\ w1 # w2
        /\ Served(w1, "signup") /\ response[w1].outcome = "Redirect"
        /\ Served(w2, "signup") /\ response[w2].outcome = "Redirect"
        => request[w1].username # request[w2].username
    /\ \A w \in Workers :
        Served(w, "signup") /\ response[w].outcome = "Redirect" =>
            VALID_USERS[request[w].username] = request[w].password

\* C3: a signup whose username is already registered is answered with
\* DuplicateUser and changes neither the credential store (the stored secret
\* stays) nor the session registry.
C3_DuplicateSignup ==
    [][\A w \in Workers :
        Steps(w, "signup") /\ request[w].username \in DOMAIN VALID_USERS =>
            /\ pc'[w] = "idle"
            /\ response'[w].outcome = "DuplicateUser"
            /\ VALID_USERS' = VALID_USERS
            /\ sessions' = sessions]_vars

C3_Witness ==
    \E w \in Workers :
        /\ Served(w, "signup")
        /\ response[w].outcome = "DuplicateUser"
        /\ request[w].username \notin sessions
        /\ VALID_USERS[request[w].username] # request[w].password

\* the secret of w's login request is not the one stored for its username
WrongSecret(w) ==
    \/ request[w].username \notin DOMAIN VALID_USERS
    \/ VALID_USERS[request[w].username] # request[w].password

\* C4: a login with a wrong secret (username unregistered, or registered
\* with another secret) reports InvalidCredentials and leaves the session
\* registry as it was.
C4_WrongSecretLogin ==
    [][\A w \in Workers :
        Steps(w, "login") /\ WrongSecret(w) =>
            /\ pc'[w] = "idle"
            /\ response'[w].outcome = "InvalidCredentials"
            /\ sessions' = sessions]_vars

C4_Witness ==
    \E w \in Workers :
        /\ Served(w, "login")
        /\ response[w].outcome = "InvalidCredentials"
        /\ request[w].username \in DOMAIN VALID_USERS
        /\ request[w].username \notin sessions

\* C5: every username in the session registry is a registered credential,
\* and a sessions entry is created only by a signup of that username or by
\* a login of it whose secret matched the stored one.
C5_SessionImpliesCredential ==
    /\ [](sessions \subseteq DOMAIN VALID_USERS)
    /\ [][\A u \in sessions' \ sessions : SessionGranted(u)]_vars

C5_Witness ==
    /\ sessions = {"admin", "bob"}
    /\ \E w \in Workers :
        /\ Served(w, "login")
        /\ request[w].username = "admin"
        /\ response[w].outcome = "Redirect"

\* C6: a logout carrying the cookie of u removes u's session, only a
\* successful login or signup of u creates it again, and until then a /home
\* request with that cookie is answered NotAuthenticated (401).
C6_LogoutThenHome ==
    /\ [][\A w \in Workers :
            Steps(w, "logout") => request[w].cookie \notin sessions']_vars
    /\ [][\A u \in Users :
            u \notin sessions /\ u \in sessions' =>
                \E w \in Workers :
                    /\ request[w].username = u
                    /\ Steps(w, "login_set") \/ Steps(w, "signup_set")]_vars
    /\ [][\A w \in Workers :
            Steps(w, "home") /\ request[w].cookie \notin sessions =>
                /\ response'[w].status = 401
                /\ response'[w].outcome = "NotAuthenticated"]_vars

C6_Witness ==
    \E w1, w2 \in Workers :
        /\ "bob" \in DOMAIN VALID_USERS
        /\ Served(w1, "logout")
        /\ request[w1].cookie = "bob"
        /\ Served(w2, "home")
        /\ request[w2].cookie = "bob"
        /\ response[w2].outcome = "NotAuthenticated"

\* C7: after a successful signup or login of u a session of u exists; it
\* stays until a logout carrying u's cookie is processed, and while it
\* exists every /home or /ask request with u's cookie passes authentication.
C7_SessionUntilLogout ==
    /\ [][\A w \in Workers :
            Steps(w, "login_set") \/ Steps(w, "signup_set") =>
                /\ request[w].username \in sessions'
                /\ response'[w].set_cookie = request[w].username]_vars
    /\ [][\A u \in sessions \ sessions' :
            \E w \in Workers :
                Steps(w, "logout") /\ request[w].cookie = u]_vars
    /\ [][\A w \in Workers :
            /\ Steps(w, "home") \/ Steps(w, "ask")
            /\ request[w].cookie \in sessions
            => /\ response'[w].status # 401
               /\ response'[w].outcome # "NotAuthenticated"]_vars

C7_Witness ==
    \E w1, w2 \in Workers :
        /\ Served(w1, "login")
        /\ request[w1].username = "admin"
        /\ response[w1].outcome = "Redirect"
        /\ request[w2].kind = "ask"
        /\ request[w2].cookie = "admin"
        /\ pc[w2] = "embed"

\* the provenance list of a sequence of hits: one line per hit, in order
Provenance(results) == [i \in 1..Len(results) |-> SourceLine(results[i])]

\* C8: when the LLM call or the reading of its response raises in an /ask
\* whose embedding and search succeeded, the request completes with 200, an
\* answer "Error: <message>" and the provenance of every retrieved hit, in
\* order.
C8_GenerationFailureIsSoft ==
    \A w \in Workers :
        frame[w].raised = "llm" =>
            /\ pc[w] \in {"render", "idle"}
            /\ pc[w] = "idle" =>
                /\ response[w].status = 200
                /\ response[w].outcome = "Completed"
                /\ \E e \in LLMErrors : response[w].answer = <<"Error: ", e>>
                /\ response[w].sources = Provenance(frame[w].results)
                /\ Len(response[w].sources) = Len(frame[w].results)

C8_Witness ==
    \E w \in Workers :
        /\ frame[w].raised = "llm"
        /\ response[w].outcome = "Completed"
        /\ Len(response[w].sources) = 3

\* C9: when the embedding call or the vector search raises, the request
\* fails: no answer and no provenance list is returned, no prompt is built
\* and no LLM call is made.
C9_RetrievalFailureIsFatal ==
    \A w \in Workers :
        frame[w].raised \in {"embed", "search"} =>
            /\ pc[w] = "idle"
            /\ response[w].status = 500
            /\ response[w].outcome = "Failed"
            /\ response[w].answer = None
            /\ response[w].sources = None
            /\ frame[w].prompt = << >>
            /\ calls[w].llm = 0

C9_Witness ==
    \E w \in Workers :
        /\ frame[w].raised = "search"
        /\ calls[w].embed = 1
        /\ response[w].outcome = "Failed"

\* C10 as stated: an authenticated /ask whose question is empty fails in
\* the embedding call (EmbeddingError), with no search and no LLM call.
C10_EmptyQuestionEmbeddingError ==
    \A w \in Workers :
        /\ Served(w, "ask")
        /\ request[w].question = ""
        /\ response[w].status # 401
        => /\ frame[w].raised = "embed"
           /\ response[w].outcome = "Failed"
           /\ calls[w].search = 0
           /\ calls[w].llm = 0

\* C10 as amended: an authenticated /ask whose question is empty is refused
\* as a request with a missing form field (422) before the function body
\* runs: no embedding call, no search and no LLM call is made.
C10_EmptyQuestionRefused ==
    /\ [](\A w \in Workers :
            request[w].kind = "ask" /\ request[w].question = "" =>
                /\ pc[w] \in {"ask", "idle"}
                /\ calls[w] = NoCalls
                /\ response[w].answer = None)
    /\ [][\A w \in Workers :
            /\ Steps(w, "ask")
            /\ ~Unauthenticated(w)
            /\ request[w].question = ""
            => /\ pc'[w] = "idle"
               /\ response'[w].status = 422]_vars

C10_Witness ==
    \E w \in Workers :
        /\ Served(w, "ask")
        /\ request[w].question = ""
        /\ request[w].cookie \in sessions
        /\ response[w].status = 422

\* the redirect of logout: 302 to "/" with the username cookie deleted
LogoutRedirect ==
    [status |-> 302, outcome |-> "Redirect", set_cookie |-> "<deleted>",
     answer |-> None, sources |-> None]

\* C11: logout is idempotent: every logout, also one with no cookie or for a
\* username with no session, is answered with the same redirect and no
\* error; without a session it leaves the registry unchanged, and a second
\* logout right after the first would leave the registry as the first did.
C11_LogoutIdempotent ==
    [][\A w \in Workers :
        Steps(w, "logout") =>
            /\ pc'[w] = "idle"
            /\ response'[w] = LogoutRedirect
            /\ request[w].cookie \notin sessions => sessions' = sessions
            /\ sessions' \ {request[w].cookie} = sessions']_vars

C11_Witness ==
    \E w1, w2 \in Workers :
        /\ w1 # w2
        /\ Served(w1, "logout") /\ request[w1].cookie = "bob"
        /\ Served(w2, "logout") /\ request[w2].cookie = "bob"
        /\ "bob" \in DOMAIN VALID_USERS
        /\ response[w1] = response[w2]
        /\ response[w1].status = 302

\* worker w's /ask has built its context lines, provenance and prompt
Built(w) ==
    \/ pc[w] \in {"generate", "render"}
    \/ Served(w, "ask") /\ response[w].outcome = "Completed"

\* the text and the source of a hit, the empty string when it has none
TextOf(r) == IF "text" \in DOMAIN r.payload THEN r.payload.text ELSE << >>
SourceOf(r) == IF "source" \in DOMAIN r.payload THEN r.payload.source ELSE << >>

\* C12: the fragments an /ask uses are the best min(held, 5) entries of the
\* index, each once and in the index's order (non-increasing score, equal
\* scores as the index returned them): at most 5, and all of them when the
\* index holds fewer than 5.
C12_TopFiveInOrder ==
    \A w \in Workers :
        Built(w) =>
            LET n == IF frame[w].held < 5 THEN frame[w].held ELSE 5
                chunks == frame[w].context_chunks
                srcs == frame[w].sources
            IN /\ Len(chunks) = n
               /\ Len(srcs) = n
               /\ \A i \in 1..n :
                    /\ chunks[i][1] = i
                    /\ chunks[i][3] = TextOf(Hit(i))
                    /\ srcs[i][2] = SourceOf(Hit(i))
               /\ \A i, j \in 1..n :
                    i < j => /\ Hit(i).score >= Hit(j).score
                             /\ srcs[i][4] >= srcs[j][4]
               /\ pc[w] = "idle" => response[w].sources = srcs

C12_Witness ==
    \E w1, w2 \in Workers :
        /\ Served(w1, "ask") /\ response[w1].outcome = "Completed"
        /\ frame[w1].held = 3 /\ Len(response[w1].sources) = 3
        /\ Served(w2, "ask") /\ response[w2].outcome = "Completed"
        /\ frame[w2].held = 6 /\ Len(response[w2].sources) = 5

\* C13: the prompt is the instruction, the CONTEXT block, the QUESTION and
\* the answer cue, in this order; the i-th context line is the number i and
\* the text of the i-th hit and nothing else, and the i-th provenance entry
\* carries the source and the score of the same hit.
C13_PromptLayout ==
    \A w \in Workers :
        Built(w) =>
            LET results == frame[w].results
                n == Len(results)
                lines == IF n = 0 THEN << << >> >>
                         ELSE [i \in 1..n |-> <<i, ". ", TextOf(results[i])>>]
            IN /\ frame[w].prompt =
                    << <<Instruction>>, << >>, <<"CONTEXT:">> >> \o lines
                    \o << << >>, <<"QUESTION:">>, <<request[w].question>>,
                          << >>, <<"ANSWER:">> >>
               /\ Len(frame[w].sources) = n
               /\ \A i \in 1..n :
                    frame[w].sources[i] =
                        <<"doc ", SourceOf(results[i]), " (score: ",
                          (results[i].score + 5) \div 10, ")">>

C13_Witness ==
    \E w \in Workers :
        /\ pc[w] = "generate"
        /\ Len(frame[w].results) = 3
        /\ Len(frame[w].prompt) = 11

\* C14: two /ask runs with the same question and the same retrieved hits in
\* the same order have the same prompt, whoever the users are and whatever
\* the registry, the credential store and the earlier requests were.
C14_PromptIsPure ==
    \A w1, w2 \in Workers :
        /\ Built(w1) /\ Built(w2)
        /\ request[w1].question = request[w2].question
        /\ frame[w1].results = frame[w2].results
        => frame[w1].prompt = frame[w2].prompt

C14_Witness ==
    \E w1, w2 \in Workers :
        /\ Built(w1) /\ Built(w2)
        /\ request[w1].cookie = "admin"
        /\ request[w2].cookie = "bob"
        /\ Len(frame[w1].results) = 3
        /\ frame[w1].results = frame[w2].results
        /\ frame[w1].prompt = frame[w2].prompt

\* C15: a hit whose payload has no text or no source does not make /ask
\* fail: the missing field is the empty string in its context line or its
\* provenance entry, and the run goes on to the prompt and the LLM call.
C15_MissingFieldsDefault ==
    /\ [](\A w \in Workers :
            Built(w) =>
                \A i \in 1..Len(frame[w].results) :
                    LET payload == frame[w].results[i].payload
                    IN /\ "text" \notin DOMAIN payload =>
                            frame[w].context_chunks[i] = <<i, ". ", << >> >>
                       /\ "source" \notin DOMAIN payload =>
                            frame[w].sources[i][2] = << >>)
    /\ [][\A w \in Workers :
            Steps(w, "prompt") =>
                /\ pc'[w] = "generate"
                /\ Len(frame'[w].context_chunks) = Len(frame[w].results)
                /\ Len(frame'[w].sources) = Len(frame[w].results)]_vars

C15_Witness ==
    \E w \in Workers :
        /\ Served(w, "ask")
        /\ response[w].outcome = "Completed"
        /\ calls[w].llm = 1
        /\ Len(frame[w].results) = 3
        /\ "text" \notin DOMAIN frame[w].results[2].payload
        /\ "source" \notin DOMAIN frame[w].results[3].payload

\* the collaborator calls made so far for w's request
Called(w, embed, search, llm) ==
    calls[w] = [embed |-> embed, search |-> search, llm |-> llm]

\* C16: an /ask runs its stages in the order authenticate, embed, search,
\* build prompt, generate, assemble: the search is issued after the embed
\* call returned, the LLM call after the search returned and the prompt
\* was built, and embed, search and generate are each called at most once.
C16_StageOrder ==
    /\ [](\A w \in Workers :
            /\ pc[w] \in {"ask", "embed"} => Called(w, 0, 0, 0)
            /\ pc[w] = "search" => Called(w, 1, 0, 0)
            /\ pc[w] = "prompt" =>
                    Called(w, 1, 1, 0) /\ frame[w].prompt = << >>
            /\ pc[w] = "generate" =>
                    Called(w, 1, 1, 0) /\ frame[w].prompt # << >>
            /\ pc[w] = "render" =>
                    Called(w, 1, 1, 1) /\ frame[w].prompt # << >>
            /\ response[w].outcome = "Completed" => Called(w, 1, 1, 1)
            /\ calls[w].embed <= 1 /\ calls[w].search <= 1
            /\ calls[w].llm <= 1
            /\ calls[w].search <= calls[w].embed
            /\ calls[w].llm <= calls[w].search)
    /\ [][\A w \in Workers :
            Steps(w, "ask") /\ pc'[w] = "embed" =>
                request[w].cookie \in sessions]_vars

C16_Witness ==
    \E w \in Workers :
        /\ Served(w, "ask")
        /\ response[w].outcome = "Completed"
        /\ Called(w, 1, 1, 1)

\* the stages of the /ask handler
AskStages == {"ask", "embed", "search", "prompt", "generate", "render"}

\* C17: an /ask holds no cross-request state: none of its steps, whatever the
\* outcome, changes the credential store or the session registry; a request
\* starts from empty locals; and the answer and provenance of a completed
\* /ask are the LLM's reply to it and the provenance of its own hits.
C17_NoCrossRequestState ==
    /\ [](\A w \in Workers :
            Served(w, "ask") /\ response[w].outcome = "Completed" =>
                /\ response[w].sources = Provenance(frame[w].results)
                /\ response[w].answer = frame[w].answer
                /\ \/ \E t \in LLMTexts : response[w].answer = Strip(t)
                   \/ \E e \in LLMErrors : response[w].answer = ErrorAnswer(e))
    /\ [][\A w \in Workers :
            /\ pc[w] \in AskStages /\ pc'[w] # pc[w] =>
                    VALID_USERS' = VALID_USERS /\ sessions' = sessions
            /\ Steps(w, "idle") =>
                    frame'[w] = NoFrame /\ calls'[w] = NoCalls]_vars

C17_Witness ==
    \E w \in Workers :
        /\ Served(w, "ask")
        /\ response[w].outcome = "Completed"
        /\ request[w].cookie = "bob"
        /\ sessions = {"admin", "bob"}
        /\ Len(response[w].sources) = 2

\* the search of w's /ask returned, and returned no hit
NoHits(w) ==
    /\ request[w].kind = "ask"
    /\ calls[w].search = 1
    /\ frame[w].raised \notin {"embed", "search"}
    /\ frame[w].results = << >>

\* C18: when the index returns zero hits the /ask goes on: the prompt has no
\* context line, the LLM is called once, and the request completes with an
\* empty provenance list.
C18_EmptyContext ==
    \A w \in Workers :
        NoHits(w) =>
            /\ pc[w] \in {"prompt", "generate", "render", "idle"}
            /\ pc[w] # "prompt" =>
                /\ frame[w].context_chunks = << >>
                /\ frame[w].prompt =
                       << <<Instruction>>, << >>, <<"CONTEXT:">>, << >>, << >>,
                          <<"QUESTION:">>, <<request[w].question>>, << >>,
                          <<"ANSWER:">> >>
            /\ pc[w] \in {"render", "idle"} => calls[w].llm = 1
            /\ pc[w] = "idle" =>
                /\ response[w].status = 200
                /\ response[w].outcome = "Completed"
                /\ response[w].sources = << >>

C18_Witness ==
    \E w \in Workers :
        /\ NoHits(w)
        /\ Served(w, "ask")
        /\ response[w].outcome = "Completed"
        /\ response[w].sources = << >>
        /\ calls[w].llm = 1

\* C19: the registry is keyed by username: a logout with the cookie of u
\* removes the entry of u and nothing else and leaves the credential store
\* alone; while u has no entry every /home and /ask with u's cookie, from
\* any client, ends with 401; and an entry appears only by a signup of u or
\* a login of u with the stored secret.
C19_SessionsKeyedByUsername ==
    /\ [][\A w \in Workers :
            Steps(w, "logout") =>
                /\ sessions' = sessions \ {request[w].cookie}
                /\ VALID_USERS' = VALID_USERS]_vars
    /\ [][\A w \in Workers :
            (Steps(w, "home") \/ Steps(w, "ask"))
            /\ request[w].cookie \notin sessions =>
                /\ pc'[w] = "idle"
                /\ response'[w].status = 401
                /\ response'[w].outcome = "NotAuthenticated"]_vars
    /\ [][\A u \in Users :
            u \notin sessions /\ u \in sessions' => SessionGranted(u)]_vars

C19_Witness ==
    \E w1, w2 \in Workers :
        /\ Served(w1, "logout")
        /\ request[w1].cookie = "admin"
        /\ Served(w2, "ask")
        /\ request[w2].cookie = "admin"
        /\ response[w2].status = 401
        /\ sessions = {"bob"}

\* C20: credentials are never deleted: a registered username stays
\* registered, admin among them, and the credential store is changed by the
\* write of a signup only, never by login, logout, /home or /ask.
C20_CredentialsOnlyGrow ==
    /\ []("admin" \in DOMAIN VALID_USERS)
    /\ [][/\ DOMAIN VALID_USERS \subseteq DOMAIN VALID_USERS'
          /\ VALID_USERS' # VALID_USERS =>
                \E w \in Workers :
                    request[w].kind = "signup" /\ Steps(w, "signup_put")]_vars

C20_Witness ==
    /\ DOMAIN VALID_USERS = {"admin", "bob"}
    /\ VALID_USERS["admin"] = "admin123"
    /\ \E w1, w2 \in Workers :
        /\ Served(w1, "logout")
        /\ request[w1].cookie = "bob"
        /\ Served(w2, "login")
        /\ request[w2].username = "bob"

====
